---- MODULE Spec2Model ----
(***************************************************************************)
(* Main node of the access control system: the AccessControlService       *)
(* (src/main_node/services/access_control.py) with its repository, the    *)
(* FaceRecognizer / FaceImageNormalizer engine it drives, and the aiohttp  *)
(* startup sequence (src/main_node/app.py).                                *)
(*                                                                         *)
(* Execution model.  The process runs one asyncio event loop.  A request  *)
(* is a coroutine: between two awaits its code runs without interruption  *)
(* on the loop thread.  An awaited repository call is one atomic step at  *)
(* the database; an awaited to_thread call runs in a worker thread, truly *)
(* in parallel with the loop thread.  `loop` holds the task that is       *)
(* inside a synchronous section of several steps (empty: the loop is at   *)
(* an await point and may resume any task).                                *)
(*                                                                         *)
(* Distances are kept squared (integers): d < T  <=>  d^2 < T^2 for       *)
(* non-negative d, T.  Descriptor coordinates are in units of 0.1.        *)
(***************************************************************************)
EXTENDS Integers, Sequences, FiniteSets, TLC

\* ------------------------------------------------------------ bounds
\* update_user_descriptor requests that reach the database; the serial id stays below
\* Cardinality(initial storage) + MaxEnrollments + 1
MaxEnrollments == 2
\* rectangles the detector returns for one probed image
MaxFaces == 3
\* log_in_room calls that go on to the database
MaxLogins == 2
\* the last instant of the clock
MaxTime == 3
\* how many record_visit requests are followed
MaxVisits == 3
\* how many room tasks are created, and how many get_unsent_tasks calls are followed
MaxTasks == 2
MaxPolls == 2

\* ------------------------------------------------------- program constants
\* Descriptor dimension D and the acceptance threshold (0.6, in units of 0.1).
D == 2
Threshold == 6
ThresholdSq == Threshold * Threshold

\* ROOM_TOKEN_LIFETIME_SEC = 3600, in units of half an hour
ROOM_TOKEN_LIFETIME == 2

\* task 0 runs the on_startup callbacks; two request tasks run concurrently
Startup == 0
Procs == {1, 2}
Tasks == {Startup} \cup Procs

Rooms == {1}
\* rows of table "User", and the user ids a request may name
Users == {1, 2}

\* ------------------------------------------------------------ values
NoDescriptor == <<>>
\* <<0, 0>> is 3 away from <<3, 0>> and from <<0, 3>>; <<9, 0>> is exactly the
\* threshold away from <<3, 0>> and further from <<0, 3>>
ShortDescriptor == <<3>>
\* <<user_id, descriptor>> an administrator submits for enrollment
EnrollInputs ==
    {<<1, <<3, 0>>>>, <<2, <<3, 0>>>>, <<2, <<0, 3>>>>, <<2, ShortDescriptor>>,
     <<3, <<3, 0>>>>}
\* descriptors a room node submits for a check
QueryInputs == {<<0, 0>>, <<3, 0>>, <<9, 0>>, ShortDescriptor}

Face(w, h, e) == [w |-> w, h |-> h, emb |-> e]
Image(dt, rk, ch, canon, fs, e) ==
    [dtype |-> dt, rank |-> rk, channels |-> ch, canonical |-> canon,
     faces |-> fs, emb |-> e]
NoImage == Image("none", 0, 0, FALSE, <<>>, NoDescriptor)
\* a camera frame with one face, one with two faces, one without faces
RawOneFace == Image("uint8", 3, 3, FALSE, <<Face(2, 2, <<3, 0>>)>>, NoDescriptor)
RawTwoFaces ==
    Image("uint8", 3, 3, FALSE,
          <<Face(1, 2, <<0, 3>>), Face(2, 2, <<3, 0>>)>>, NoDescriptor)
RawNoFace == Image("uint8", 3, 3, FALSE, <<>>, NoDescriptor)
\* np.array of a greyscale PIL image has rank 2
RawGray == Image("uint8", 2, 0, FALSE, <<Face(2, 2, <<3, 0>>)>>, NoDescriptor)
\* already cropped faces sent by a room node
NormFace == Image("uint8", 3, 3, TRUE, <<>>, <<0, 0>>)
NormU16 == Image("uint16", 3, 3, TRUE, <<>>, <<3, 0>>)
CalcImages == {RawOneFace, RawTwoFaces, RawNoFace, RawGray}
FaceImages == {NormFace, NormU16, RawOneFace}

\* images of every sample type, rank and channel count, for probing the
\* normalizer alone; the embedding of the i-th detected face is <<i, 0>>
FaceSizes == {<<1, 1>>, <<1, 2>>, <<2, 1>>, <<2, 2>>}
FaceLists ==
    UNION {[1..n -> FaceSizes] : n \in 0..MaxFaces}
DetectedFaces(sizes) ==
    [i \in 1..Len(sizes) |-> Face(sizes[i][1], sizes[i][2], <<i, 0>>)]
Shapes ==
    {<<2, 0>>, <<3, 1>>, <<3, 2>>, <<3, 3>>, <<3, 4>>, <<4, 3>>}
ProbeImages ==
    {Image(dt, sh[1], sh[2], FALSE, DetectedFaces(sizes), NoDescriptor) :
        dt \in {"uint8", "uint16", "float32"}, sh \in Shapes, sizes \in FaceLists}
NotProbed == [stage |-> "new", valid |-> FALSE, normalized |-> NoImage]

Row(i, f, u) == [id |-> i, features |-> f, user_id |-> u]
\* the database at startup: no descriptor enrolled yet
InitialStorages == {{}}

\* ------------------------------------------------------- pure helpers
RECURSIVE SumSq(_, _, _)
SumSq(a, b, i) ==
    IF i > Len(a) THEN 0
    ELSE (a[i] - b[i]) * (a[i] - b[i]) + SumSq(a, b, i + 1)

\* squared Euclidean distance, defined for vectors of one length
DistSq(a, b) == SumSq(a, b, 1)

Comparable(a, b) == Len(a) = Len(b)

MinOf(S) == CHOOSE x \in S : \A y \in S : x <= y

Perms(S) ==
    {s \in [1..Cardinality(S) -> S] : \A x \in S : \E i \in DOMAIN s : s[i] = x}

\* the orders in which a select without "order by" returns the rows:
\* ascending or descending id
RowOrders(S) ==
    {s \in Perms(S) : \/ \A i, j \in DOMAIN s : i < j => s[i].id < s[j].id
                      \/ \A i, j \in DOMAIN s : i < j => s[i].id > s[j].id}

\* ------------------------------------------------ FaceImageNormalizer
\* variant: the channel count is not looked at
check_image_valid_no_channels(image) ==
    IF image.dtype # "uint8" THEN FALSE
    ELSE IF image.rank # 3 THEN FALSE
    ELSE TRUE

\* _check_image_valid: dtype uint8, rank 3, 1 or 3 channels
check_image_valid(image) ==
    IF image.dtype # "uint8" THEN FALSE
    ELSE IF image.rank # 3 THEN FALSE
    ELSE IF image.channels \notin {1, 3} THEN FALSE
    ELSE TRUE

Area(f) == f.w * f.h

\* variant: the last rectangle of maximal area
LargestFaceLast(fs) ==
    CHOOSE i \in DOMAIN fs :
        /\ \A j \in DOMAIN fs : Area(fs[j]) <= Area(fs[i])
        /\ \A j \in DOMAIN fs : Area(fs[j]) = Area(fs[i]) => j <= i

\* index of the first rectangle of maximal area
LargestFace(fs) ==
    MinOf({i \in DOMAIN fs : \A j \in DOMAIN fs : Area(fs[j]) <= Area(fs[i])})

\* normalize: NoImage stands for the "no face" outcome (None)
normalize(image) ==
    IF image.faces = <<>> THEN NoImage
    ELSE Image("uint8", 3, 3, TRUE, <<>>, image.faces[LargestFace(image.faces)].emb)

\* ----------------------------------------------------- FaceRecognizer
check_image_normalized(image) == check_image_valid(image) /\ image.canonical

check_descriptor_valid(descriptor) == Len(descriptor) = D

\* the embedder: the descriptor of a normalized face crop
calculate_descriptor(normalized_image) == normalized_image.emb

NoRecognition ==
    [status |-> "none", is_known_face |-> FALSE, descriptor_id |-> 0, distance |-> -1]
RaisedRecognition ==
    [status |-> "raised", is_known_face |-> FALSE, descriptor_id |-> 0, distance |-> -1]
UnknownFace ==
    [status |-> "ok", is_known_face |-> FALSE, descriptor_id |-> 0, distance |-> -1]
KnownFace(i, d) ==
    [status |-> "ok", is_known_face |-> TRUE, descriptor_id |-> i, distance |-> d]

\* positions of the cached descriptors the query can be compared with
Candidates(cache, q) == {i \in DOMAIN cache : Comparable(cache[i][2], q)}

\* variant: the farthest candidate is taken (argmax for argmin)
MaxDistSq(cache, q) ==
    CHOOSE d \in {DistSq(cache[i][2], q) : i \in Candidates(cache, q)} :
        \A i \in Candidates(cache, q) : DistSq(cache[i][2], q) <= d

MinDistSq(cache, q) == MinOf({DistSq(cache[i][2], q) : i \in Candidates(cache, q)})

\* ids of the cached descriptors at the minimum distance
Nearest(cache, q) ==
    {cache[i][1] : i \in {j \in Candidates(cache, q) :
                            DistSq(cache[j][2], q) = MinDistSq(cache, q)}}

\* variant: ties go to the entry that comes first in the map
TieBreakFirst(cache, q) ==
    cache[MinOf({j \in Candidates(cache, q) :
                   DistSq(cache[j][2], q) = MinDistSq(cache, q)})][1]

\* ties at the minimum: the lowest enrolled id
TieBreak(cache, q) == MinOf(Nearest(cache, q))

\* variant: a distance equal to the threshold is accepted
AcceptsAtThreshold(distSq) == distSq <= ThresholdSq

Accepts(distSq) == distSq < ThresholdSq

\* recognize_by_descriptor against one snapshot of the cache.  A cached
\* vector of another length than the query has no distance to it: the
\* backend either raises or leaves it out (malformed = "raise" / "skip").
recognize_by_descriptor(cache, q, malformed) ==
    IF malformed = "raise" /\ Candidates(cache, q) # DOMAIN cache
    THEN RaisedRecognition
    ELSE IF Candidates(cache, q) = {} THEN UnknownFace
    ELSE IF Accepts(MinDistSq(cache, q))
         THEN KnownFace(TieBreak(cache, q), MinDistSq(cache, q))
         ELSE UnknownFace

\* variant: a match is learned, the query joins the cache under the matched id
CacheLearnsMatch(cache, q, rec) ==
    IF rec.is_known_face THEN Append(cache, <<rec.descriptor_id, q>>) ELSE cache

\* the cache after a recognition: recognition only reads it
CacheAfterRecognition(cache, q, rec) == cache

\* variant: update_descriptors fills the live map in place
KnownInPlace(old, partial) == partial

\* what the attribute holding the cache shows while update_descriptors is
\* still building the new map: build, then swap
KnownWhileBuilding(old, partial) == old

\* ---------------------------------------------- AccessControlService
\* _load_descriptors: ((d.id, np.array(d.features)) for d in descriptors)
LoadedPairs(descriptors) ==
    [i \in DOMAIN descriptors |-> <<descriptors[i].id, descriptors[i].features>>]

\* variant: only the sample type is checked
ImageAcceptedByType(image) == image.dtype = "uint8"

\* the validity gates at the head of the three flows
ImageAccepted(image) == check_image_valid(image)
FaceImageAccepted(image) == check_image_normalized(image)
DescriptorAccepted(descriptor) == check_descriptor_valid(descriptor)

\* variant: normalize is called without to_thread
NormalizeInline == "loop"

\* variant: the None test after normalize is missing
NormalizeNeverFails(normalized_image) == FALSE

\* "if normalized_image is None"
NormalizeFailed(normalized_image) == normalized_image = NoImage

\* the thread that runs each blocking call (await to_thread(...))
NormalizeRunsOn == "worker"
CalculateDescriptorRunsOn == "worker"
RecognizeRunsOn == "worker"

NoResult ==
    [kind |-> "none", cause |-> "", is_known |-> FALSE, have_access |-> "None",
     user |-> 0, features |-> NoDescriptor]
Err(cause) == [NoResult EXCEPT !.kind = "Err", !.cause = cause]
Raised == [NoResult EXCEPT !.kind = "raised"]
Success == [NoResult EXCEPT !.kind = "Result"]
OkAccessCheck(known, access, user) ==
    [NoResult EXCEPT !.kind = "Ok", !.is_known = known, !.have_access = access,
                     !.user = user]
OkDescriptor(features) == [NoResult EXCEPT !.kind = "Ok", !.features = features]

NoLocals ==
    [op |-> "none", room |-> 0, image |-> NoImage, descriptor |-> NoDescriptor,
     user |-> 0, normalized |-> NoImage, fetched |-> <<>>, snap |-> <<>>,
     rec |-> NoRecognition, worker_calls |-> 0]

\* -------------------------------------------------- authorization values
\* rows of "RoomTempToken"; NoToken is None
RoomTempToken(token, room_id, valid_before) ==
    [token |-> token, room_id |-> room_id, valid_before |-> valid_before]
NoToken == RoomTempToken("none", 0, 0)
\* the token strings the database generates, in the order it generates them
TokenStrings == <<"T1", "T2", "T3", "T4">>
\* the Room-Token header of a request: absent, or a string a room node may hold
RoomHeaders == {"none"} \cup {TokenStrings[i] : i \in 1..MaxLogins}
\* table "RoomLoginToken": one login token per room; NoLogin is None
RoomLoginTokens == {[token |-> "L1", room_id |-> 1], [token |-> "L2", room_id |-> 2]}
NoLogin == [token |-> "none", room_id |-> 0]
\* the Login-Token header of a request: absent, a known one, an unknown one
LoginHeaders == {"none", "L1", "L2", "Lx"}
\* table "AdminToken"; NoAdmin is None
AdminTokens == {[token |-> "A1", admin_id |-> 1]}
NoAdmin == [token |-> "none", admin_id |-> 0]
AdminHeaders == {"none", "A1", "Ax"}
\* what prepare_requirement returns: a web.Response, or a value for the handler
Response(status, text) == [kind |-> "Response", status |-> status, text |-> text, value |-> 0]
Value(v) == [kind |-> "value", status |-> 0, text |-> "", value |-> v]
NoResponse == [kind |-> "none", status |-> 0, text |-> "", value |-> 0]
\* RoomAuthorization / AdminAuthorization; NoAuth: no call made
Authorization(known, valid, id) == [known |-> known, valid |-> valid, id |-> id]
NoAuth == [known |-> FALSE, valid |-> "unset", id |-> 0]
\* the endpoints wrapped by require: checkers, then keyword requirements
Endpoints == {"record_visit", "configure_room_access"}
Checkers(endpoint) ==
    IF endpoint = "configure_room_access" THEN <<"AdminAuth">> ELSE <<>>
Requirements(endpoint) ==
    IF endpoint = "record_visit" THEN <<"RoomAuth", "PydanticPayload">>
    ELSE <<"PydanticPayload">>
Payloads == {"ok", "wrong schema"}
OkTempTokenInfo(token) ==
    [kind |-> "Ok", temp_token |-> token.token, valid_before |-> token.valid_before]
\* locals of a controller coroutine and of the authorization call it makes
NoRequest ==
    [at |-> "idle", endpoint |-> "none", header |-> "none", payload |-> "none",
     outcomes |-> <<>>, fetched |-> NoToken, auth |-> NoAuth, checked_at |-> 0,
     room |-> 0, issued |-> NoToken, result |-> NoResult, response |-> NoResponse]

\* -------------------------------------------------------- visit values
\* rows of "RoomVisitReport"
RoomVisitReport(id, room_id, user_id) == [id |-> id, room_id |-> room_id, user_id |-> user_id]
\* Ok(result=VisitRecording(allowed, visit_id)); visit_id 0 is None
OkVisitRecording(allowed, visit_id) ==
    [kind |-> "Ok", allowed |-> allowed, visit_id |-> visit_id]
\* locals of a record_visit or configure_access call
NoCall ==
    [at |-> "idle", op |-> "none", room_id |-> 0, user_id |-> 0, accessed |-> FALSE,
     have_access |-> FALSE, visit_id |-> 0, result |-> [kind |-> "none"]]

\* --------------------------------------------------- room task values
\* TaskStatus, as far as the calls followed here use it, and a string that
\* is not a member
TaskStatus == {"UNSENT", "SENT", "DONE"}
ReportedStatuses == {"UNSENT", "DONE", "bogus"}
\* TaskType and a string that is not a member
TaskType == {"OPEN_DOOR"}
RequestedTypes == {"OPEN_DOOR", "bogus"}
\* table "Room", and the room ids requests carry
ExistingRooms == {1, 2}
RequestedRooms == {1, 2, 3}
\* the room whose node polls and reports; polls of two rooms touch disjoint rows
PolledRooms == {1}
\* rows of "RoomTask" (the id is the position in the table); NoTask is None
RoomTask(room_id, status) == [room_id |-> room_id, status |-> status]
NoTask == RoomTask(0, "none")
\* locals of a call of the room tasks service
NoTaskCall ==
    [at |-> "idle", op |-> "none", room_id |-> 0, tasks |-> {}, task_id |-> 0,
     task |-> NoTask, exist |-> FALSE, type |-> "none", new_status |-> "none"]

\* ------------------------------------------------------------- state
VARIABLES
    pool,               \* DatabaseManager: the connection pool exists
    descriptors,        \* table "UserFaceDescriptor"
    next_id,            \* its serial id
    permissions,        \* table "UserRoomAccessPermission": <<room, user>>
    known_descriptors,  \* FaceRecognizer: the cache, <<id, vector>> in insertion order
    building,           \* update_descriptors: the new map under construction
    pending,            \* update_descriptors: pairs not yet consumed
    malformed,          \* how the recognizer backend treats a vector of another length
    loop,               \* the task inside a synchronous section of the event loop
    pc,                 \* each task's position
    loc,                \* each task's locals
    result,             \* each request's result
    enrollments,        \* update_user_descriptor requests that went on to the database
    committed,          \* history: the map installed by the last completed update_descriptors
    allowed,            \* history: per reader, the complete maps that existed when it read
    now,                \* the clock (datetime.now())
    temp_tokens,        \* table "RoomTempToken"
    next_token,         \* the token value the database generates next
    logins,             \* log_in_room calls that went on to the database
    completed,          \* history: the temp tokens of the completed logins, in order
    req,                \* the locals of each controller coroutine
    issued_at,          \* history: the clock reading of each temp token's log_in_room
    rejected,           \* history: the temp tokens authorize_room found expired
    visits,             \* table "RoomVisitReport"
    next_visit,         \* its serial id
    recordings,         \* record_visit calls made
    call,               \* the locals of each record_visit / configure_access call
    room_tasks,         \* table "RoomTask", by id
    polls,              \* get_unsent_tasks calls made
    tcall,              \* the locals of each call of the room tasks service
    delivered,          \* history: per task, in how many returned task lists it was
    resent,             \* history: the tasks a report set back to UNSENT
    late,               \* history: the tasks created between a poll's fetch and update
    probe,              \* the image given to the normalizer on its own
    probed              \* what the normalizer answered for it

dbVars == <<pool, descriptors, next_id, permissions>>
cacheVars == <<known_descriptors, building, pending, malformed>>
taskVars == <<loop, pc, loc, result, enrollments>>
historyVars == <<committed, allowed>>
engineVars == <<dbVars, cacheVars, taskVars, historyVars>>
imageVars == <<probe, probed>>
authHistory == <<issued_at, rejected>>
authVars == <<now, temp_tokens, next_token, logins, completed, req, authHistory>>
\* what the steps of the access-control service leave alone
visitVars == <<visits, next_visit, recordings, call>>
roomTaskVars == <<room_tasks, polls, tcall, delivered, resent, late>>
elsewhere == <<imageVars, authVars, visitVars, roomTaskVars>>
vars == <<engineVars, elsewhere>>

EngineInit ==
    /\ pool = FALSE
    /\ descriptors \in InitialStorages
    /\ next_id = Cardinality(descriptors) + 1
    /\ permissions = {<<1, 1>>}
    /\ known_descriptors = <<>>
    /\ building = <<>>
    /\ pending = <<>>
    /\ malformed = "unset"
    /\ loop = {}
    /\ pc = [t \in Tasks |-> IF t = Startup THEN "created" ELSE "idle"]
    /\ loc = [t \in Tasks |-> NoLocals]
    /\ result = [t \in Tasks |-> NoResult]
    /\ enrollments = 0
    /\ committed = <<>>
    /\ allowed = [t \in Tasks |-> {}]

ImageIdle ==
    /\ probe = NoImage
    /\ probed = NotProbed

AuthInit ==
    /\ now = 0
    /\ temp_tokens = {}
    /\ next_token = 1
    /\ logins = 0
    /\ completed = <<>>
    /\ req = [t \in Procs |-> NoRequest]
    /\ issued_at = <<>>
    /\ rejected = {}

VisitIdle ==
    /\ visits = {}
    /\ next_visit = 1
    /\ recordings = 0
    /\ call = [t \in Procs |-> NoCall]

RoomTasksIdle ==
    /\ room_tasks = <<>>
    /\ polls = 0
    /\ tcall = [t \in Procs |-> NoTaskCall]
    /\ delivered = <<>>
    /\ resent = {}
    /\ late = {}

Init ==
    /\ EngineInit
    /\ ImageIdle
    /\ AuthInit
    /\ VisitIdle
    /\ RoomTasksIdle

\* the loop thread can run the next synchronous section of task t
LoopFree(t) == loop \subseteq {t}

Serving == pc[Startup] = "serving"

\* variant: requests are taken while the startup callbacks still run
CanStartBeforeStartup(t) ==
    /\ pc[t] = "idle"
    /\ loop = {}

CanStart(t) ==
    /\ Serving
    /\ pc[t] = "idle"
    /\ loop = {}

\* the request of task t ends with result r; the handler turns it into the
\* response in the same synchronous section
Finish(t, r) ==
    /\ pc' = [pc EXCEPT ![t] = "done"]
    /\ result' = [result EXCEPT ![t] = r]
    /\ loop' = {t}

\* the request of task t goes on at position p, the loop thread held by `holder`
Goto(t, p, holder) ==
    /\ pc' = [pc EXCEPT ![t] = p]
    /\ result' = [result EXCEPT ![t] = NoResult]
    /\ loop' = holder

\* the loop thread after `await to_thread(...)` was reached
Dispatched(t, runs_on) == IF runs_on = "loop" THEN {t} ELSE {}

WorkerCalls(n, runs_on) == IF runs_on = "worker" THEN n + 1 ELSE n

\* --------------------------------------------------------- startup
\* app.on_startup[0]: db_manager.connect
Connect ==
    /\ pc[Startup] = "created"
    /\ pool' = TRUE
    /\ pc' = [pc EXCEPT ![Startup] = "load_fetch"]
    /\ loc' = [loc EXCEPT ![Startup].op = "init"]
    /\ UNCHANGED <<descriptors, next_id, permissions, cacheVars, loop, result, enrollments,
                   historyVars>>
    /\ UNCHANGED elsewhere

\* ------------------------------------------------ _load_descriptors
\* get_all_face_descriptors: select * (no order)
LoadFetch(t) ==
    /\ pc[t] = "load_fetch"
    /\ LoopFree(t)
    /\ pool
    /\ \E s \in RowOrders(descriptors) :
          loc' = [loc EXCEPT ![t].fetched = s]
    /\ pc' = [pc EXCEPT ![t] = "load_update"]
    /\ UNCHANGED <<dbVars, cacheVars, loop, result, enrollments, historyVars>>
    /\ UNCHANGED elsewhere

\* update_descriptors is entered: a synchronous section on the loop thread
UpdateDescriptorsBegin(t) ==
    /\ pc[t] = "load_update"
    /\ LoopFree(t)
    /\ loop' = {t}
    /\ pending' = LoadedPairs(loc[t].fetched)
    /\ building' = <<>>
    /\ known_descriptors' = KnownWhileBuilding(known_descriptors, <<>>)
    /\ pc' = [pc EXCEPT ![t] = "building"]
    /\ loc' = [loc EXCEPT ![t].fetched = <<>>]
    /\ UNCHANGED <<dbVars, malformed, result, enrollments, historyVars>>
    /\ UNCHANGED elsewhere

\* update_descriptors consumes one pair
UpdateDescriptorsStep(t) ==
    /\ pc[t] = "building"
    /\ pending # <<>>
    /\ building' = Append(building, Head(pending))
    /\ pending' = Tail(pending)
    /\ known_descriptors' = KnownWhileBuilding(known_descriptors, building')
    /\ UNCHANGED <<dbVars, malformed, taskVars, historyVars>>
    /\ UNCHANGED elsewhere

\* update_descriptors installs the new map and returns
UpdateDescriptorsSwap(t) ==
    /\ pc[t] = "building"
    /\ pending = <<>>
    /\ known_descriptors' = building
    /\ committed' = building
    /\ building' = <<>>
    /\ IF t = Startup
       THEN /\ pc' = [pc EXCEPT ![t] = "serving"]
            /\ loop' = {}
            /\ UNCHANGED result
       ELSE Finish(t, Success)
    /\ UNCHANGED <<dbVars, pending, malformed, loc, enrollments, allowed>>
    /\ UNCHANGED elsewhere

\* ------------------------------------------- update_user_descriptor
\* get_user_by_id, then the Err return or on to update_descriptor_by_user_id
StartUpdateUserDescriptor(t, user, descriptor) ==
    /\ CanStart(t)
    /\ enrollments < MaxEnrollments
    /\ enrollments' = IF user \in Users THEN enrollments + 1 ELSE enrollments
    /\ loc' = [loc EXCEPT ![t] = [NoLocals EXCEPT !.op = "update_user_descriptor",
                                                  !.user = user,
                                                  !.descriptor = descriptor]]
    /\ IF user \notin Users
       THEN Finish(t, Err("Unknown user id."))
       ELSE Goto(t, "uud_delete", {})
    /\ allowed' = [allowed EXCEPT ![t] = {}]
    /\ UNCHANGED <<dbVars, cacheVars, committed>>
    /\ UNCHANGED elsewhere

\* delete from "UserFaceDescriptor" where "user_id" = $1
DeleteDescriptor(t) ==
    /\ pc[t] = "uud_delete"
    /\ LoopFree(t)
    /\ descriptors' = {r \in descriptors : r.user_id # loc[t].user}
    /\ pc' = [pc EXCEPT ![t] = "uud_insert"]
    /\ UNCHANGED <<pool, next_id, permissions, cacheVars, loop, loc, result, enrollments,
                   historyVars>>
    /\ UNCHANGED elsewhere

\* insert into "UserFaceDescriptor" ("user_id", "features")
InsertDescriptor(t) ==
    /\ pc[t] = "uud_insert"
    /\ LoopFree(t)
    /\ descriptors' = descriptors \cup {Row(next_id, loc[t].descriptor, loc[t].user)}
    /\ next_id' = next_id + 1
    /\ pc' = [pc EXCEPT ![t] = "load_fetch"]
    /\ UNCHANGED <<pool, permissions, cacheVars, loop, loc, result, enrollments, historyVars>>
    /\ UNCHANGED elsewhere

\* ------------------------------------------------ calculate_descriptor
StartCalculateDescriptor(t, image) ==
    /\ CanStart(t)
    /\ UNCHANGED enrollments
    /\ IF ~ImageAccepted(image)
       THEN /\ loc' = [loc EXCEPT ![t] = [NoLocals EXCEPT !.op = "calculate_descriptor",
                                                          !.image = image]]
            /\ Finish(t, Err("Provided image is invalid."))
       ELSE /\ loc' = [loc EXCEPT ![t] =
                         [NoLocals EXCEPT !.op = "calculate_descriptor",
                                          !.image = image,
                                          !.worker_calls = WorkerCalls(0, NormalizeRunsOn)]]
            /\ Goto(t, "cd_normalize", Dispatched(t, NormalizeRunsOn))
    /\ allowed' = [allowed EXCEPT ![t] = {}]
    /\ UNCHANGED <<dbVars, cacheVars, committed>>
    /\ UNCHANGED elsewhere

\* FaceImageNormalizer.normalize runs
RunNormalize(t) ==
    /\ pc[t] = "cd_normalize"
    /\ loc' = [loc EXCEPT ![t].normalized = normalize(loc[t].image)]
    /\ pc' = [pc EXCEPT ![t] = "cd_normalize_ret"]
    /\ UNCHANGED <<dbVars, cacheVars, loop, result, enrollments, historyVars>>
    /\ UNCHANGED elsewhere

\* the coroutine resumes with the normalized image or None
AfterNormalize(t) ==
    /\ pc[t] = "cd_normalize_ret"
    /\ LoopFree(t)
    /\ IF NormalizeFailed(loc[t].normalized)
       THEN /\ Finish(t, Err("Can't normalize image. Maybe there is no face."))
            /\ UNCHANGED loc
       ELSE /\ loc' = [loc EXCEPT ![t].worker_calls =
                         WorkerCalls(loc[t].worker_calls, CalculateDescriptorRunsOn)]
            /\ Goto(t, "cd_embed", Dispatched(t, CalculateDescriptorRunsOn))
    /\ UNCHANGED <<dbVars, cacheVars, enrollments, historyVars>>
    /\ UNCHANGED elsewhere

\* FaceRecognizer.calculate_descriptor runs
RunCalculateDescriptor(t) ==
    /\ pc[t] = "cd_embed"
    /\ loc' = [loc EXCEPT ![t].descriptor = calculate_descriptor(loc[t].normalized)]
    /\ pc' = [pc EXCEPT ![t] = "cd_embed_ret"]
    /\ UNCHANGED <<dbVars, cacheVars, loop, result, enrollments, historyVars>>
    /\ UNCHANGED elsewhere

\* the coroutine resumes with the descriptor
FinishCalculateDescriptor(t) ==
    /\ pc[t] = "cd_embed_ret"
    /\ LoopFree(t)
    /\ Finish(t, OkDescriptor(loc[t].descriptor))
    /\ UNCHANGED <<dbVars, cacheVars, loc, enrollments, historyVars>>
    /\ UNCHANGED elsewhere

\* ------------------------------------------------ check_access_by_*
\* the complete maps a reader may legitimately see at this moment: the one
\* installed, and the one a running update_descriptors is about to install
CompleteMaps ==
    {committed} \cup (IF \E u \in Tasks : pc[u] = "building"
                      THEN {building \o pending} ELSE {})

NotBound(op) ==
    IF op = "check_access_by_face"
    THEN "Calculated descriptor is known but not bound to user."
    ELSE "Provided descriptor is known, but not bound to user."

\* The backend's treatment of a cached vector of another length is fixed
\* for the whole run; it is drawn when the first such comparison happens.
Backends(cache, q) ==
    IF malformed # "unset" THEN {malformed}
    ELSE IF Candidates(cache, q) = DOMAIN cache THEN {"unset"}
    ELSE {"raise", "skip"}

\* variant: the is_known_face test is inverted
OnRecognizedInverted(t, rec) ==
    IF rec.status = "raised" THEN Finish(t, Raised)
    ELSE IF rec.is_known_face THEN Finish(t, OkAccessCheck(FALSE, "None", 0))
    ELSE Goto(t, "get_user", {})

\* what the service does with the RecognitionResult rec
OnRecognized(t, rec) ==
    IF rec.status = "raised" THEN Finish(t, Raised)
    ELSE IF ~rec.is_known_face THEN Finish(t, OkAccessCheck(FALSE, "None", 0))
    ELSE Goto(t, "get_user", {})

StartCheckAccessByFace(t, room, image) ==
    /\ CanStart(t)
    /\ UNCHANGED enrollments
    /\ IF ~FaceImageAccepted(image)
       THEN /\ loc' = [loc EXCEPT ![t] = [NoLocals EXCEPT !.op = "check_access_by_face",
                                                          !.room = room, !.image = image]]
            /\ Finish(t, Err("Provided image is not normalized."))
       ELSE /\ loc' = [loc EXCEPT ![t] =
                         [NoLocals EXCEPT !.op = "check_access_by_face",
                                          !.room = room, !.image = image,
                                          !.worker_calls = WorkerCalls(0, RecognizeRunsOn)]]
            /\ Goto(t, "caf_recognize", Dispatched(t, RecognizeRunsOn))
    /\ allowed' = [allowed EXCEPT ![t] = {}]
    /\ UNCHANGED <<dbVars, cacheVars, committed>>
    /\ UNCHANGED elsewhere

\* FaceRecognizer.recognize runs: embed the image, take the cache, match
RunRecognize(t) ==
    /\ pc[t] = "caf_recognize"
    /\ LET descriptor == calculate_descriptor(loc[t].image)
       IN  \E m \in Backends(known_descriptors, descriptor) :
              /\ malformed' = m
              /\ loc' = [loc EXCEPT ![t].descriptor = descriptor,
                                    ![t].snap = known_descriptors,
                                    ![t].rec = recognize_by_descriptor(
                                                   known_descriptors, descriptor, m)]
              /\ known_descriptors' =
                    CacheAfterRecognition(
                        known_descriptors, descriptor,
                        recognize_by_descriptor(known_descriptors, descriptor, m))
    /\ allowed' = [allowed EXCEPT ![t] = CompleteMaps]
    /\ pc' = [pc EXCEPT ![t] = "caf_ret"]
    /\ UNCHANGED <<dbVars, building, pending, loop, result, enrollments, committed>>
    /\ UNCHANGED elsewhere

\* the coroutine resumes with the RecognitionResult
AfterRecognize(t) ==
    /\ pc[t] = "caf_ret"
    /\ LoopFree(t)
    /\ OnRecognized(t, loc[t].rec)
    /\ UNCHANGED <<dbVars, cacheVars, loc, enrollments, historyVars>>
    /\ UNCHANGED elsewhere

\* check_descriptor_valid and recognize_by_descriptor, inline on the loop thread
StartCheckAccessByDescriptor(t, room, descriptor) ==
    /\ CanStart(t)
    /\ UNCHANGED enrollments
    /\ IF ~DescriptorAccepted(descriptor)
       THEN /\ loc' = [loc EXCEPT ![t] =
                         [NoLocals EXCEPT !.op = "check_access_by_descriptor",
                                          !.room = room, !.descriptor = descriptor]]
            /\ Finish(t, Err("Provided descriptor is invalid."))
            /\ allowed' = [allowed EXCEPT ![t] = {}]
            /\ UNCHANGED <<malformed, known_descriptors>>
       ELSE \E m \in Backends(known_descriptors, descriptor) :
              LET rec == recognize_by_descriptor(known_descriptors, descriptor, m)
              IN  /\ malformed' = m
                  /\ loc' = [loc EXCEPT ![t] =
                               [NoLocals EXCEPT !.op = "check_access_by_descriptor",
                                                !.room = room, !.descriptor = descriptor,
                                                !.snap = known_descriptors, !.rec = rec]]
                  /\ known_descriptors' =
                        CacheAfterRecognition(known_descriptors, descriptor, rec)
                  /\ allowed' = [allowed EXCEPT ![t] = CompleteMaps]
                  /\ OnRecognized(t, rec)
    /\ UNCHANGED <<dbVars, building, pending, committed>>
    /\ UNCHANGED elsewhere

\* get_user_by_descriptor_id
GetUserByDescriptorId(t) ==
    /\ pc[t] = "get_user"
    /\ LoopFree(t)
    /\ LET rows == {r \in descriptors : r.id = loc[t].rec.descriptor_id}
       IN  IF rows = {}
           THEN /\ Finish(t, Err(NotBound(loc[t].op)))
                /\ UNCHANGED loc
           ELSE /\ loc' = [loc EXCEPT ![t].user = (CHOOSE r \in rows : TRUE).user_id]
                /\ Goto(t, "check_permission", {})
    /\ UNCHANGED <<dbVars, cacheVars, enrollments, historyVars>>
    /\ UNCHANGED elsewhere

\* check_access_permission_exist
CheckAccessPermission(t) ==
    /\ pc[t] = "check_permission"
    /\ LoopFree(t)
    /\ Finish(t, OkAccessCheck(TRUE,
                               IF <<loc[t].room, loc[t].user>> \in permissions
                               THEN "True" ELSE "False",
                               loc[t].user))
    /\ UNCHANGED <<dbVars, cacheVars, loc, enrollments, historyVars>>
    /\ UNCHANGED elsewhere

\* ------------------------------------------------------ cancellation
\* The request of task t is cancelled (the client went away) while it waits
\* for a worker call.  A call that is still running cannot be stopped: it
\* runs to its end and its result is dropped; a call that has ended has its
\* result dropped at once.
Abort(t) ==
    /\ loop = {}
    /\ pc[t] \in {"cd_normalize", "cd_embed", "caf_recognize",
                  "cd_normalize_ret", "cd_embed_ret", "caf_ret"}
    /\ IF pc[t] \in {"cd_normalize", "cd_embed", "caf_recognize"}
       THEN /\ pc' = [pc EXCEPT ![t] = "orphaned"]
            \* the coroutine's locals are gone; the call keeps its argument
            /\ loc' = [loc EXCEPT ![t] =
                         [NoLocals EXCEPT !.op = loc[t].op,
                                          !.image = IF pc[t] = "cd_embed"
                                                    THEN loc[t].normalized
                                                    ELSE loc[t].image]]
            /\ UNCHANGED <<result, allowed>>
       ELSE /\ pc' = [pc EXCEPT ![t] = "idle"]
            /\ loc' = [loc EXCEPT ![t] = NoLocals]
            /\ allowed' = [allowed EXCEPT ![t] = {}]
            /\ UNCHANGED result
    /\ UNCHANGED <<dbVars, cacheVars, loop, enrollments, committed>>
    /\ UNCHANGED elsewhere

\* the worker call of a cancelled request ends; recognize has read the cache
RunOrphaned(t) ==
    /\ pc[t] = "orphaned"
    /\ IF loc[t].op = "check_access_by_face"
       THEN LET descriptor == calculate_descriptor(loc[t].image)
            IN  \E m \in Backends(known_descriptors, descriptor) :
                   /\ malformed' = m
                   /\ known_descriptors' =
                         CacheAfterRecognition(
                             known_descriptors, descriptor,
                             recognize_by_descriptor(known_descriptors, descriptor, m))
       ELSE UNCHANGED <<malformed, known_descriptors>>
    /\ pc' = [pc EXCEPT ![t] = "idle"]
    /\ loc' = [loc EXCEPT ![t] = NoLocals]
    /\ allowed' = [allowed EXCEPT ![t] = {}]
    /\ UNCHANGED <<dbVars, building, pending, loop, result, enrollments, committed>>
    /\ UNCHANGED elsewhere

\* the response is handed to the server; the task is free for the next request
Return(t) ==
    /\ pc[t] = "done"
    /\ pc' = [pc EXCEPT ![t] = "idle"]
    /\ loc' = [loc EXCEPT ![t] = NoLocals]
    /\ result' = [result EXCEPT ![t] = NoResult]
    /\ allowed' = [allowed EXCEPT ![t] = {}]
    /\ loop' = {}
    /\ UNCHANGED <<dbVars, cacheVars, enrollments, committed>>
    /\ UNCHANGED elsewhere

Next ==
    \/ Connect
    \/ \E t \in Tasks : LoadFetch(t)
    \/ \E t \in Tasks : UpdateDescriptorsBegin(t)
    \/ \E t \in Tasks : UpdateDescriptorsStep(t)
    \/ \E t \in Tasks : UpdateDescriptorsSwap(t)
    \/ \E t \in Procs, e \in EnrollInputs :
          StartUpdateUserDescriptor(t, e[1], e[2])
    \/ \E t \in Procs : DeleteDescriptor(t)
    \/ \E t \in Procs : InsertDescriptor(t)
    \/ \E t \in Procs, i \in CalcImages : StartCalculateDescriptor(t, i)
    \/ \E t \in Procs : RunNormalize(t)
    \/ \E t \in Procs : AfterNormalize(t)
    \/ \E t \in Procs : RunCalculateDescriptor(t)
    \/ \E t \in Procs : FinishCalculateDescriptor(t)
    \/ \E t \in Procs, r \in Rooms, i \in FaceImages : StartCheckAccessByFace(t, r, i)
    \/ \E t \in Procs : RunRecognize(t)
    \/ \E t \in Procs : AfterRecognize(t)
    \/ \E t \in Procs, r \in Rooms, d \in QueryInputs :
          StartCheckAccessByDescriptor(t, r, d)
    \/ \E t \in Procs : GetUserByDescriptorId(t)
    \/ \E t \in Procs : CheckAccessPermission(t)
    \/ \E t \in Procs : Abort(t)
    \/ \E t \in Procs : RunOrphaned(t)
    \/ \E t \in Procs : Return(t)

Spec == Init /\ [][Next]_vars

\* ===================================================== startup alone
\* The startup callbacks and the requests that read the cache, for a
\* database that holds descriptors when the application starts.
StartupStorages ==
    {{}, {Row(1, <<3, 0>>, 1)}, {Row(1, <<3, 0>>, 1), Row(2, <<0, 3>>, 2)}}

StartupInit ==
    /\ pool = FALSE
    /\ descriptors \in StartupStorages
    /\ next_id = Cardinality(descriptors) + 1
    /\ permissions = {<<1, 1>>}
    /\ known_descriptors = <<>>
    /\ building = <<>>
    /\ pending = <<>>
    /\ malformed = "unset"
    /\ loop = {}
    /\ pc = [t \in Tasks |-> IF t = Startup THEN "created" ELSE "idle"]
    /\ loc = [t \in Tasks |-> NoLocals]
    /\ result = [t \in Tasks |-> NoResult]
    /\ enrollments = 0
    /\ committed = <<>>
    /\ allowed = [t \in Tasks |-> {}]
    /\ ImageIdle
    /\ AuthInit
    /\ VisitIdle
    /\ RoomTasksIdle

StartupNext ==
    \/ Connect
    \/ LoadFetch(Startup)
    \/ UpdateDescriptorsBegin(Startup)
    \/ UpdateDescriptorsStep(Startup)
    \/ UpdateDescriptorsSwap(Startup)
    \/ \E t \in Procs, r \in Rooms, d \in QueryInputs :
          StartCheckAccessByDescriptor(t, r, d)
    \/ \E t \in Procs : GetUserByDescriptorId(t)
    \/ \E t \in Procs : CheckAccessPermission(t)
    \/ \E t \in Procs : Return(t)

StartupSpec == StartupInit /\ [][StartupNext]_vars

\* ================================================== the normalizer alone
\* The image checks and normalize are functions of the image only.  This
\* specification gives them every image of ProbeImages.
ImageInit ==
    /\ EngineInit
    /\ AuthInit
    /\ VisitIdle
    /\ RoomTasksIdle
    /\ probe \in ProbeImages
    /\ probed = NotProbed

\* check_image_valid(probe)
ProbeCheckImageValid ==
    /\ probed.stage = "new"
    /\ probed' = [probed EXCEPT !.stage = "checked", !.valid = check_image_valid(probe)]
    /\ UNCHANGED <<probe, engineVars, authVars, visitVars, roomTaskVars>>

\* normalize(probe), reached as in calculate_descriptor: after the check passed
ProbeNormalize ==
    /\ probed.stage = "checked"
    /\ ImageAccepted(probe)
    /\ probed' = [probed EXCEPT !.stage = "normalized", !.normalized = normalize(probe)]
    /\ UNCHANGED <<probe, engineVars, authVars, visitVars, roomTaskVars>>

ImageNext ==
    \/ ProbeCheckImageValid
    \/ ProbeNormalize

ImageSpec == ImageInit /\ [][ImageNext]_vars

\* ======================================================= authorization
\* Each action is the code of one coroutine between two awaits, with the
\* database call it ends in.
\* get_room_login_token: select * from "RoomLoginToken" where "token" = $1
get_room_login_token(token) ==
    IF \E r \in RoomLoginTokens : r.token = token
    THEN CHOOSE r \in RoomLoginTokens : r.token = token
    ELSE NoLogin

\* variant: the None test after get_room_login_token is missing
AfterLoginLookupUnchecked(t, login_token) ==
    req' = [req EXCEPT ![t].at = "lir_delete", ![t].room = login_token.room_id]

\* log_in_room after get_room_login_token returned login_token
AfterLoginLookup(t, login_token) ==
    IF login_token = NoLogin
    THEN req' = [req EXCEPT ![t].at = "done",
                            ![t].result = Err("Unknown room login token."),
                            ![t].response = Response(200, "Err")]
    ELSE req' = [req EXCEPT ![t].at = "lir_delete", ![t].room = login_token.room_id]

\* the time of the clock
Tick ==
    /\ now < MaxTime
    /\ now' = now + 1
    /\ UNCHANGED <<temp_tokens, next_token, logins, completed, req, engineVars, imageVars, visitVars, roomTaskVars, authHistory>>

\* handler room_login: the header, then log_in_room up to its first database call
RoomLogin(t, header) ==
    /\ req[t].at = "idle"
    /\ IF header = "none"
       THEN /\ req' = [req EXCEPT ![t] =
                         [NoRequest EXCEPT !.at = "done", !.endpoint = "room_login",
                                           !.response = Response(400,
                                               "Login-Token header is required.")]]
            /\ UNCHANGED logins
       ELSE /\ req' = [req EXCEPT ![t] =
                         [NoRequest EXCEPT !.at = "lir_lookup", !.endpoint = "room_login",
                                           !.header = header]]
            /\ logins < MaxLogins
            /\ logins' = IF get_room_login_token(header) = NoLogin
                         THEN logins ELSE logins + 1
    /\ UNCHANGED <<now, temp_tokens, next_token, completed, engineVars, imageVars, visitVars, roomTaskVars, authHistory>>

\* log_in_room resumes with the login token row
LoginLookedUp(t) ==
    /\ req[t].at = "lir_lookup"
    /\ AfterLoginLookup(t, get_room_login_token(req[t].header))
    /\ UNCHANGED <<now, temp_tokens, next_token, logins, completed, engineVars, imageVars, visitVars, roomTaskVars, authHistory>>

\* delete_room_temp_token: delete from "RoomTempToken" where "room_id" = $1
LoginDelete(t) ==
    /\ req[t].at = "lir_delete"
    /\ temp_tokens' = {r \in temp_tokens : r.room_id # req[t].room}
    /\ req' = [req EXCEPT ![t].at = "lir_create"]
    /\ UNCHANGED <<now, next_token, logins, completed, engineVars, imageVars, visitVars, roomTaskVars, authHistory>>

\* variant: the lifetime is not added
ValidBeforeNow(time) == time

\* valid_before=datetime.now() + ROOM_TOKEN_LIFETIME
ValidBefore(time) == time + ROOM_TOKEN_LIFETIME

\* create_room_temp_token(room_id, datetime.now() + ROOM_TOKEN_LIFETIME)
LoginCreate(t) ==
    /\ req[t].at = "lir_create"
    /\ LET new_token == RoomTempToken(TokenStrings[next_token], req[t].room,
                                       ValidBefore(now))
       IN  /\ temp_tokens' = temp_tokens \cup {new_token}
           /\ req' = [req EXCEPT ![t].at = "lir_return", ![t].issued = new_token]
    /\ next_token' = next_token + 1
    /\ issued_at' = Append(issued_at, now)
    /\ UNCHANGED <<now, logins, completed, rejected, engineVars, imageVars, visitVars, roomTaskVars>>

\* log_in_room returns Ok(TempTokenInfo); the handler answers
LoginReturn(t) ==
    /\ req[t].at = "lir_return"
    /\ req' = [req EXCEPT ![t].at = "done",
                          ![t].result = OkTempTokenInfo(req[t].issued),
                          ![t].response = Response(200, "Ok")]
    /\ completed' = Append(completed, req[t].issued)
    /\ UNCHANGED <<now, temp_tokens, next_token, logins, engineVars, imageVars, visitVars, roomTaskVars, authHistory>>

\* ------------------------------------------------------------ require
\* get_room_temp_token: select * from "RoomTempToken" where "token" = $1
get_room_temp_token(token) ==
    IF \E r \in temp_tokens : r.token = token
    THEN CHOOSE r \in temp_tokens : r.token = token
    ELSE NoToken

get_admin_token(token) ==
    IF \E r \in AdminTokens : r.token = token
    THEN CHOOSE r \in AdminTokens : r.token = token
    ELSE NoAdmin

\* variant: a token is taken as expired at the instant valid_before
ExpiredAtDeadline(valid_before, time) == valid_before <= time

\* temp_token.valid_before < datetime.now().astimezone()
Expired(valid_before, time) == valid_before < time

\* authorize_room, from the row get_room_temp_token returned, at clock `time`
authorize_room(temp_token, time) ==
    IF temp_token = NoToken THEN Authorization(FALSE, "None", 0)
    ELSE IF Expired(temp_token.valid_before, time) THEN Authorization(TRUE, "False", 0)
    ELSE Authorization(TRUE, "True", temp_token.room_id)

authorize_admin(token) ==
    IF token = NoAdmin THEN Authorization(FALSE, "None", 0)
    ELSE Authorization(TRUE, "None", token.admin_id)

\* RoomAuth.prepare_requirement after authorize_room
RoomAuthOutcome(auth) ==
    IF ~auth.known THEN Response(401, "Unknown Room-Token value.")
    ELSE IF auth.valid # "True" THEN Response(401, "Token has already invalid.")
    ELSE Value(auth.id)

\* AdminAuth.prepare_requirement after authorize_admin
AdminAuthOutcome(auth) ==
    IF ~auth.known THEN Response(401, "Unknown token.") ELSE Value(auth.id)

\* PydanticPayload.prepare_requirement
PayloadOutcome(payload) ==
    IF payload # "ok" THEN Response(400, "Json data has wrong schema or types.")
    ELSE Value(0)

\* variant: the result of a requirement is never taken for a Response
IsResponseNever(outcome) == FALSE

\* isinstance(result, Response)
IsResponse(outcome) == outcome.kind = "Response"

Steps(endpoint) == Checkers(endpoint) \o Requirements(endpoint)

\* the requirement wrapper_handler is about to prepare
Preparing(t, requirement) ==
    /\ req[t].at = "prepare"
    /\ Steps(req[t].endpoint)[Len(req[t].outcomes) + 1] = requirement

\* wrapper_handler with the outcome of the requirement just prepared: return
\* it if it is a Response, else go on to the next one or to the handler;
\* r holds the locals as the requirement left them
Continue(t, r, outcome) ==
    IF IsResponse(outcome)
    THEN req' = [req EXCEPT ![t] =
                   [r EXCEPT !.at = "done", !.outcomes = Append(r.outcomes, outcome),
                             !.response = outcome]]
    ELSE req' = [req EXCEPT ![t] =
                   [r EXCEPT !.at = IF Len(r.outcomes) + 1 = Len(Steps(r.endpoint))
                                    THEN "handler" ELSE "prepare",
                             !.outcomes = Append(r.outcomes, outcome)]]

\* a request to an endpoint wrapped by require arrives
StartRequest(t, endpoint, header, payload) ==
    /\ req[t].at = "idle"
    /\ req' = [req EXCEPT ![t] =
                 [NoRequest EXCEPT !.at = "prepare", !.endpoint = endpoint,
                                   !.header = header, !.payload = payload]]
    /\ UNCHANGED <<now, temp_tokens, next_token, logins, completed, engineVars, imageVars, visitVars, roomTaskVars, authHistory>>

\* RoomAuth.prepare_requirement up to the select of authorize_room
PrepareRoomAuth(t) ==
    /\ Preparing(t, "RoomAuth")
    /\ IF req[t].header = "none"
       THEN Continue(t, req[t], Response(400, "Room-Token header is required."))
       ELSE req' = [req EXCEPT ![t].at = "room_auth",
                               ![t].fetched = get_room_temp_token(req[t].header)]
    /\ UNCHANGED <<now, temp_tokens, next_token, logins, completed, engineVars, imageVars, visitVars, roomTaskVars, authHistory>>

\* authorize_room resumes with the row and reads the clock
RoomAuthorized(t) ==
    /\ req[t].at = "room_auth"
    /\ LET auth == authorize_room(req[t].fetched, now)
       IN  /\ Continue(t, [req[t] EXCEPT !.auth = auth, !.checked_at = now],
                       RoomAuthOutcome(auth))
           /\ rejected' = IF auth.known /\ auth.valid = "False"
                          THEN rejected \cup {req[t].header} ELSE rejected
    /\ UNCHANGED <<now, temp_tokens, next_token, logins, completed, issued_at,
                   engineVars, imageVars, visitVars, roomTaskVars>>

\* AdminAuth.prepare_requirement
PrepareAdminAuth(t) ==
    /\ Preparing(t, "AdminAuth")
    /\ IF req[t].header = "none"
       THEN Continue(t, req[t], Response(400, "Admin-Token header is required."))
       ELSE LET auth == authorize_admin(get_admin_token(req[t].header))
            IN  Continue(t, [req[t] EXCEPT !.auth = auth], AdminAuthOutcome(auth))
    /\ UNCHANGED <<now, temp_tokens, next_token, logins, completed, engineVars, imageVars, visitVars, roomTaskVars, authHistory>>

\* PydanticPayload.prepare_requirement
PreparePayload(t) ==
    /\ Preparing(t, "PydanticPayload")
    /\ Continue(t, req[t], PayloadOutcome(req[t].payload))
    /\ UNCHANGED <<now, temp_tokens, next_token, logins, completed, engineVars, imageVars, visitVars, roomTaskVars, authHistory>>

\* the handler runs: it calls its service operation with the keyword arguments
RunHandler(t) ==
    /\ req[t].at = "handler"
    /\ req' = [req EXCEPT ![t].at = "done",
                          ![t].room = IF req[t].endpoint = "record_visit"
                                      THEN req[t].outcomes[1].value ELSE 0,
                          ![t].result = Success,
                          ![t].response = Response(200, "Ok")]
    /\ UNCHANGED <<now, temp_tokens, next_token, logins, completed, engineVars, imageVars, visitVars, roomTaskVars, authHistory>>

\* the response has been sent
Respond(t) ==
    /\ req[t].at = "done"
    /\ req' = [req EXCEPT ![t] = NoRequest]
    /\ UNCHANGED <<now, temp_tokens, next_token, logins, completed, engineVars, imageVars, visitVars, roomTaskVars, authHistory>>

\* Requests to the endpoints wrapped by require only read the token tables:
\* two of them cannot affect each other, so one task serves them, between
\* and during the log-ins of both tasks.
Guarded == {1}

AuthNext ==
    \/ Tick
    \/ \E t \in Procs, h \in LoginHeaders : RoomLogin(t, h)
    \/ \E t \in Procs : LoginLookedUp(t)
    \/ \E t \in Procs : LoginDelete(t)
    \/ \E t \in Procs : LoginCreate(t)
    \/ \E t \in Procs : LoginReturn(t)
    \/ \E t \in Guarded, h \in RoomHeaders, p \in Payloads :
          StartRequest(t, "record_visit", h, p)
    \/ \E t \in Guarded, h \in AdminHeaders, p \in Payloads :
          StartRequest(t, "configure_room_access", h, p)
    \/ \E t \in Guarded : PrepareRoomAuth(t)
    \/ \E t \in Guarded : RoomAuthorized(t)
    \/ \E t \in Guarded : PrepareAdminAuth(t)
    \/ \E t \in Guarded : PreparePayload(t)
    \/ \E t \in Guarded : RunHandler(t)
    \/ \E t \in Procs : Respond(t)

AuthSpec == Init /\ [][AuthNext]_vars

\* ============================================================== visits
\* record_visit and configure_access of the access-control service, with the
\* service started and the recognizer left alone.
VisitInit ==
    /\ pool = TRUE
    /\ descriptors = {}
    /\ next_id = 1
    /\ permissions \in SUBSET (Rooms \X Users)
    /\ known_descriptors = <<>>
    /\ building = <<>>
    /\ pending = <<>>
    /\ malformed = "unset"
    /\ loop = {}
    /\ pc = [t \in Tasks |-> IF t = Startup THEN "serving" ELSE "idle"]
    /\ loc = [t \in Tasks |-> IF t = Startup THEN [NoLocals EXCEPT !.op = "init"]
                              ELSE NoLocals]
    /\ result = [t \in Tasks |-> NoResult]
    /\ enrollments = 0
    /\ committed = <<>>
    /\ allowed = [t \in Tasks |-> {}]
    /\ ImageIdle
    /\ AuthInit
    /\ VisitIdle
    /\ RoomTasksIdle

\* select from "UserRoomAccessPermission" where "room_id" = $1 and "user_id" = $2
check_access_permission_exist(user_id, room_id) == <<room_id, user_id>> \in permissions

\* record_visit up to the end of its select
RecordVisit(t, room_id, user_id) ==
    /\ call[t].at = "idle"
    /\ recordings < MaxVisits
    /\ recordings' = recordings + 1
    /\ call' = [call EXCEPT ![t] =
                  [NoCall EXCEPT !.at = "rv_checked", !.op = "record_visit",
                                 !.room_id = room_id, !.user_id = user_id,
                                 !.have_access =
                                     check_access_permission_exist(user_id, room_id)]]
    /\ UNCHANGED <<visits, next_visit, engineVars, imageVars, authVars, roomTaskVars>>

\* record_visit resumes with the answer: allowed=False, or create_visit_report
RecordVisitChecked(t) ==
    /\ call[t].at = "rv_checked"
    /\ IF ~call[t].have_access
       THEN /\ call' = [call EXCEPT ![t].at = "done",
                                    ![t].result = OkVisitRecording(FALSE, 0)]
            /\ UNCHANGED <<visits, next_visit>>
       ELSE /\ visits' = visits \cup
                           {RoomVisitReport(next_visit, call[t].room_id, call[t].user_id)}
            /\ next_visit' = next_visit + 1
            /\ call' = [call EXCEPT ![t].at = "rv_created", ![t].visit_id = next_visit]
    /\ UNCHANGED <<recordings, engineVars, imageVars, authVars, roomTaskVars>>

\* record_visit returns Ok(VisitRecording(allowed=True, visit_id))
RecordVisitReturn(t) ==
    /\ call[t].at = "rv_created"
    /\ call' = [call EXCEPT ![t].at = "done",
                            ![t].result = OkVisitRecording(TRUE, call[t].visit_id)]
    /\ UNCHANGED <<visits, next_visit, recordings, engineVars, imageVars, authVars, roomTaskVars>>

\* configure_access up to the end of its insert or delete
ConfigureAccess(t, room_id, user_id, accessed) ==
    /\ call[t].at = "idle"
    /\ permissions' = IF accessed THEN permissions \cup {<<room_id, user_id>>}
                      ELSE permissions \ {<<room_id, user_id>>}
    /\ call' = [call EXCEPT ![t] =
                  [NoCall EXCEPT !.at = "ca_executed", !.op = "configure_access",
                                 !.room_id = room_id, !.user_id = user_id,
                                 !.accessed = accessed]]
    /\ UNCHANGED <<pool, descriptors, next_id, cacheVars, taskVars, historyVars,
                   visits, next_visit, recordings, imageVars, authVars, roomTaskVars>>

\* configure_access returns Result(success=True)
ConfigureAccessReturn(t) ==
    /\ call[t].at = "ca_executed"
    /\ call' = [call EXCEPT ![t].at = "done", ![t].result = [kind |-> "Result"]]
    /\ UNCHANGED <<visits, next_visit, recordings, engineVars, imageVars, authVars, roomTaskVars>>

\* the response has been sent
CallAnswered(t) ==
    /\ call[t].at = "done"
    /\ call' = [call EXCEPT ![t] = NoCall]
    /\ UNCHANGED <<visits, next_visit, recordings, engineVars, imageVars, authVars, roomTaskVars>>

VisitNext ==
    \/ \E t \in Procs, r \in Rooms, u \in Users : RecordVisit(t, r, u)
    \/ \E t \in Procs : RecordVisitChecked(t)
    \/ \E t \in Procs : RecordVisitReturn(t)
    \/ \E t \in Procs, r \in Rooms, u \in Users, a \in BOOLEAN : ConfigureAccess(t, r, u, a)
    \/ \E t \in Procs : ConfigureAccessReturn(t)
    \/ \E t \in Procs : CallAnswered(t)

VisitSpec == VisitInit /\ [][VisitNext]_vars

\* ========================================================== room tasks
\* The room tasks service, with the service started and the recognizer left
\* alone.  Each action is the code of one coroutine between two awaits, with
\* the database call it ends in.
RoomTasksInit ==
    /\ VisitInit
    /\ permissions = {}

TaskIds == DOMAIN room_tasks

\* select * from "RoomTask" where "room_id" = $1 and "status" = $2
get_room_tasks_with_status(room_id, status) ==
    {id \in TaskIds : room_tasks[id].room_id = room_id /\ room_tasks[id].status = status}

\* variant: the update also takes every row that has status UNSENT
update_task_status_and_unsent(new_status, task_ids) ==
    [id \in TaskIds |->
        IF id \in task_ids \/ room_tasks[id].status = "UNSENT"
        THEN [room_tasks[id] EXCEPT !.status = new_status]
        ELSE room_tasks[id]]

\* update "RoomTask" set "status" = $1 where "id" = $2, for every id given
update_task_status(new_status, task_ids) ==
    [id \in TaskIds |->
        IF id \in task_ids THEN [room_tasks[id] EXCEPT !.status = new_status]
        ELSE room_tasks[id]]

\* select * from "RoomTask" where "id" = $1
get_task_by_id(id) == IF id \in TaskIds THEN room_tasks[id] ELSE NoTask

\* select from "Room" where "id" = $1
check_room_exist(id) == id \in ExistingRooms

\* some get_unsent_tasks call for the room has fetched and not yet updated
PollBetweenFetchAndUpdate(room_id) ==
    \E t \in Procs : tcall[t].at = "gut_fetched" /\ tcall[t].room_id = room_id

\* get_unsent_tasks up to the end of its select
GetUnsentTasks(t, room_id) ==
    /\ tcall[t].at = "idle"
    /\ polls < MaxPolls
    /\ polls' = polls + 1
    /\ tcall' = [tcall EXCEPT ![t] =
                   [NoTaskCall EXCEPT !.at = "gut_fetched", !.op = "get_unsent_tasks",
                                      !.room_id = room_id,
                                      !.tasks = get_room_tasks_with_status(room_id, "UNSENT")]]
    /\ UNCHANGED <<room_tasks, delivered, resent, late, engineVars, imageVars, authVars,
                   visitVars>>

\* get_unsent_tasks resumes with the tasks: update_task_status(SENT, ids)
UnsentTasksFetched(t) ==
    /\ tcall[t].at = "gut_fetched"
    /\ room_tasks' = update_task_status("SENT", tcall[t].tasks)
    /\ tcall' = [tcall EXCEPT ![t].at = "gut_updated"]
    /\ UNCHANGED <<polls, delivered, resent, late, engineVars, imageVars, authVars,
                   visitVars>>

\* get_unsent_tasks returns Ok(TaskList(tasks))
UnsentTasksReturned(t) ==
    /\ tcall[t].at = "gut_updated"
    /\ delivered' = [id \in TaskIds |->
                        IF id \in tcall[t].tasks THEN delivered[id] + 1 ELSE delivered[id]]
    /\ tcall' = [tcall EXCEPT ![t] = NoTaskCall]
    /\ UNCHANGED <<room_tasks, polls, resent, late, engineVars, imageVars, authVars,
                   visitVars>>

\* create_task up to the end of check_room_exist
CreateTask(t, room_id, type) ==
    /\ tcall[t].at = "idle"
    /\ Len(room_tasks) < MaxTasks
    /\ tcall' = [tcall EXCEPT ![t] =
                   [NoTaskCall EXCEPT !.at = "ct_checked", !.op = "create_task",
                                      !.room_id = room_id, !.type = type,
                                      !.exist = check_room_exist(room_id)]]
    /\ UNCHANGED <<room_tasks, polls, delivered, resent, late, engineVars, imageVars,
                   authVars, visitVars>>

\* create_task resumes: Err, or the insert with status UNSENT
CreateTaskChecked(t) ==
    /\ tcall[t].at = "ct_checked"
    /\ IF ~tcall[t].exist
       THEN /\ tcall' = [tcall EXCEPT ![t] = NoTaskCall]
            /\ UNCHANGED <<room_tasks, delivered, late>>
       ELSE IF tcall[t].type \notin TaskType
       THEN /\ tcall' = [tcall EXCEPT ![t] = NoTaskCall]
            /\ UNCHANGED <<room_tasks, delivered, late>>
       ELSE /\ Len(room_tasks) < MaxTasks
            /\ room_tasks' = Append(room_tasks, RoomTask(tcall[t].room_id, "UNSENT"))
            /\ delivered' = Append(delivered, 0)
            /\ late' = IF PollBetweenFetchAndUpdate(tcall[t].room_id)
                       THEN late \cup {Len(room_tasks) + 1} ELSE late
            /\ tcall' = [tcall EXCEPT ![t].at = "ct_created",
                                      ![t].task_id = Len(room_tasks) + 1]
    /\ UNCHANGED <<polls, resent, engineVars, imageVars, authVars, visitVars>>

\* create_task returns Ok(TaskView)
TaskCreated(t) ==
    /\ tcall[t].at = "ct_created"
    /\ tcall' = [tcall EXCEPT ![t] = NoTaskCall]
    /\ UNCHANGED <<room_tasks, polls, delivered, resent, late, engineVars, imageVars,
                   authVars, visitVars>>

\* report_task_performed up to the end of get_task_by_id
ReportTaskPerformed(t, room_id, task_id, new_status) ==
    /\ tcall[t].at = "idle"
    /\ tcall' = [tcall EXCEPT ![t] =
                   [NoTaskCall EXCEPT !.at = "rtp_fetched", !.op = "report_task_performed",
                                      !.room_id = room_id, !.task_id = task_id,
                                      !.new_status = new_status,
                                      !.task = get_task_by_id(task_id)]]
    /\ UNCHANGED <<room_tasks, polls, delivered, resent, late, engineVars, imageVars,
                   authVars, visitVars>>

\* report_task_performed resumes: one of three Errs, or update_task_status
TaskReportChecked(t) ==
    /\ tcall[t].at = "rtp_fetched"
    /\ IF tcall[t].task = NoTask
       THEN /\ tcall' = [tcall EXCEPT ![t] = NoTaskCall]
            /\ UNCHANGED <<room_tasks, resent>>
       ELSE IF tcall[t].task.room_id # tcall[t].room_id
       THEN /\ tcall' = [tcall EXCEPT ![t] = NoTaskCall]
            /\ UNCHANGED <<room_tasks, resent>>
       ELSE IF tcall[t].new_status \notin TaskStatus
       THEN /\ tcall' = [tcall EXCEPT ![t] = NoTaskCall]
            /\ UNCHANGED <<room_tasks, resent>>
       ELSE /\ room_tasks' = update_task_status(tcall[t].new_status, {tcall[t].task_id})
            /\ resent' = IF tcall[t].new_status = "UNSENT"
                         THEN resent \cup {tcall[t].task_id} ELSE resent
            /\ tcall' = [tcall EXCEPT ![t].at = "rtp_updated"]
    /\ UNCHANGED <<polls, delivered, late, engineVars, imageVars, authVars, visitVars>>

\* report_task_performed returns Result(success=True)
TaskReported(t) ==
    /\ tcall[t].at = "rtp_updated"
    /\ tcall' = [tcall EXCEPT ![t] = NoTaskCall]
    /\ UNCHANGED <<room_tasks, polls, delivered, resent, late, engineVars, imageVars,
                   authVars, visitVars>>

\* Polls come from both request tasks, so that two of them can interleave;
\* create_task and report_task_performed come from one, between and during
\* the polls.
Others == {2}

RoomTasksNext ==
    \/ \E t \in Procs, r \in PolledRooms : GetUnsentTasks(t, r)
    \/ \E t \in Procs : UnsentTasksFetched(t)
    \/ \E t \in Procs : UnsentTasksReturned(t)
    \/ \E t \in Others, r \in RequestedRooms, type \in RequestedTypes : CreateTask(t, r, type)
    \/ \E t \in Others : CreateTaskChecked(t)
    \/ \E t \in Others : TaskCreated(t)
    \/ \E t \in Others, r \in PolledRooms, id \in 1..MaxTasks, st \in ReportedStatuses :
          ReportTaskPerformed(t, r, id, st)
    \/ \E t \in Others : TaskReportChecked(t)
    \/ \E t \in Others : TaskReported(t)

RoomTasksSpec == RoomTasksInit /\ [][RoomTasksNext]_vars

\* ================================================================ claims
\* task t holds a RecognitionResult
Recognized(t) == loc[t].rec.status = "ok"

\* the cached entries of t's snapshot that the query can be compared with
Compared(t) == {i \in DOMAIN loc[t].snap : Comparable(loc[t].snap[i][2], loc[t].descriptor)}

DistTo(t, i) == DistSq(loc[t].snap[i][2], loc[t].descriptor)

\* C1: update_descriptors is atomic for readers. Every recognition, on the
\* loop thread or in a worker thread while update_descriptors is running,
\* took as its cache one complete map - the map installed before the update
\* or the map the update installs - and its result is the match against that
\* one map; it never saw a half-built map.
C1_ReadersSeeCompleteMap ==
    \A t \in Procs :
        loc[t].rec.status # "none" =>
            /\ loc[t].snap \in allowed[t]
            /\ loc[t].rec = recognize_by_descriptor(loc[t].snap, loc[t].descriptor, malformed)

\* a worker-thread recognition has read the cache while update_descriptors
\* was half way through a map that differs from the installed one
C1_Witness ==
    \E t \in Procs, u \in Procs :
        /\ pc[t] = "caf_ret"
        /\ pc[u] = "building"
        /\ building # <<>>
        /\ pending # <<>>
        /\ Cardinality(allowed[t]) = 2
        /\ loc[t].snap = committed

\* no update_user_descriptor call (with its cache reload) is in progress
NoUpdateInProgress ==
    \A t \in Procs :
        pc[t] \notin {"uud_delete", "uud_insert", "load_fetch", "load_update", "building"}

StoredPairs == {<<r.id, r.features>> : r \in descriptors}

CachedPairs == {known_descriptors[i] : i \in DOMAIN known_descriptors}

\* C2: whenever init has completed and no update_user_descriptor call is in
\* progress, the cache holds exactly the (id, features) pairs of storage.
C2_CacheEqualsStorage ==
    (Serving /\ NoUpdateInProgress) => CachedPairs = StoredPairs

\* C3: a returned RecognitionResult is a match exactly when the minimum
\* distance from the query to the cached descriptors is strictly below the
\* threshold; it then carries that minimum distance and the id of an entry
\* at that distance, and otherwise it carries no id.
C3_MatchIffBelowThreshold ==
    \A t \in Procs :
        Recognized(t) =>
            /\ loc[t].rec.is_known_face <=>
                  \E i \in Compared(t) : DistTo(t, i) < ThresholdSq
            /\ loc[t].rec.is_known_face =>
                  /\ \A i \in Compared(t) : DistTo(t, i) >= loc[t].rec.distance
                  /\ \E i \in Compared(t) :
                        /\ DistTo(t, i) = loc[t].rec.distance
                        /\ loc[t].snap[i][1] = loc[t].rec.descriptor_id
            /\ ~loc[t].rec.is_known_face => loc[t].rec.descriptor_id = 0

\* a query whose nearest cached descriptor lies exactly at the threshold
\* was answered "unknown"
C3_Witness ==
    \E t \in Procs :
        /\ Recognized(t)
        /\ ~loc[t].rec.is_known_face
        /\ \E i \in Compared(t) : DistTo(t, i) = ThresholdSq
        /\ \A i \in Compared(t) : DistTo(t, i) >= ThresholdSq

\* C4: when several cached descriptors lie at the minimum distance, the
\* match carries the lowest enrolled id among them, whatever the order in
\* which the pairs were given to update_descriptors.
C4_TieGoesToLowestId ==
    \A t \in Procs :
        (Recognized(t) /\ loc[t].rec.is_known_face) =>
            \A i \in Compared(t) :
                DistTo(t, i) = loc[t].rec.distance =>
                    loc[t].rec.descriptor_id <= loc[t].snap[i][1]

\* a match among two entries at the same minimum distance, the higher id
\* first in the map
C4_Witness ==
    \E t \in Procs :
        /\ Recognized(t)
        /\ loc[t].rec.is_known_face
        /\ \E i \in Compared(t), j \in Compared(t) :
              /\ i < j
              /\ loc[t].snap[i][1] > loc[t].snap[j][1]
              /\ DistTo(t, i) = loc[t].rec.distance
              /\ DistTo(t, j) = loc[t].rec.distance

\* the access check of task t has returned with "unknown face"
AnsweredUnknown(t) ==
    /\ pc[t] = "done"
    /\ result[t] = OkAccessCheck(FALSE, "None", 0)

\* C6: after update_descriptors([]) every recognition is "unknown". A
\* recognition that ran on the empty cache returns a result that is not a
\* match and carries no id, and the access check that asked for it ends
\* with Ok(is_known = False) without looking for a user.
C6_EmptyCacheKnowsNobody ==
    \A t \in Procs :
        (loc[t].rec.status # "none" /\ loc[t].snap = <<>>) =>
            /\ loc[t].rec = UnknownFace
            /\ pc[t] \in {"caf_ret", "done"}
            /\ pc[t] = "done" => AnsweredUnknown(t)

\* an access check by a valid descriptor has been answered from the empty
\* cache that update_descriptors installed
C6_Witness ==
    \E t \in Procs :
        /\ Serving
        /\ committed = <<>>
        /\ loc[t].op = "check_access_by_descriptor"
        /\ loc[t].rec.status = "ok"
        /\ loc[t].snap = <<>>
        /\ pc[t] = "done"

\* the positions of t's snapshot that hold exactly the query vector
SeededAt(t) == {i \in DOMAIN loc[t].snap : loc[t].snap[i][2] = loc[t].descriptor}

C8_ValidityGatesWorkerStages ==
    \A t \in Procs :
        /\ pc[t] \in {"cd_normalize", "cd_normalize_ret", "cd_embed", "cd_embed_ret"}
              => check_image_valid(loc[t].image)
        /\ pc[t] \in {"caf_recognize", "caf_ret"}
              => check_image_normalized(loc[t].image)
        /\ (loc[t].op = "calculate_descriptor" /\ ~check_image_valid(loc[t].image)) =>
              /\ pc[t] = "done"
              /\ result[t] = Err("Provided image is invalid.")
              /\ loc[t].worker_calls = 0
              /\ loc[t].normalized = NoImage
              /\ loc[t].descriptor = NoDescriptor
        /\ (loc[t].op = "check_access_by_face" /\ ~check_image_normalized(loc[t].image)) =>
              /\ pc[t] = "done"
              /\ result[t] = Err("Provided image is not normalized.")
              /\ loc[t].worker_calls = 0
              /\ loc[t].rec = NoRecognition
        /\ loc[t].worker_calls > 0 =>
              \/ loc[t].op = "calculate_descriptor" /\ check_image_valid(loc[t].image)
              \/ loc[t].op = "check_access_by_face" /\ check_image_normalized(loc[t].image)

\* calculate_descriptor has turned down an image that is uint8 but not
\* three-dimensional
C8_Witness ==
    \E t \in Procs :
        /\ loc[t].op = "calculate_descriptor"
        /\ loc[t].image.dtype = "uint8"
        /\ ~check_image_valid(loc[t].image)
        /\ pc[t] = "done"
        /\ result[t].kind = "Err"

\* C9: every descriptor stored, cached or used as a query has length D.
C9_DescriptorLengthIsD ==
    /\ \A r \in descriptors : Len(r.features) = D
    /\ \A i \in DOMAIN known_descriptors : Len(known_descriptors[i][2]) = D
    /\ \A t \in Procs : loc[t].rec.status # "none" => Len(loc[t].descriptor) = D

\* the positions at which a blocking call of t is waiting to run
InFlight == {"cd_normalize", "cd_embed", "caf_recognize"}

\* C10: normalize, calculate_descriptor and the embedding of recognize are
\* dispatched to a worker thread: while one of them is in flight for a
\* request, that request does not hold the scheduler thread, and each such
\* call was counted as a worker call.
C10_BlockingCallsRunOnWorker ==
    \A t \in Procs :
        /\ pc[t] \in InFlight => t \notin loop
        /\ pc[t] \in {"cd_normalize", "caf_recognize"} => loc[t].worker_calls = 1
        /\ pc[t] = "cd_embed" => loc[t].worker_calls = 2

\* while normalize is in flight for one request, another request runs
\* update_descriptors on the scheduler thread
C10_Witness ==
    \E t \in Procs, u \in Procs :
        /\ pc[t] = "cd_normalize"
        /\ pc[u] = "building"
        /\ loop = {u}

\* C11: the cache changes only in a step of update_descriptors, which only
\* init and update_user_descriptor reach; recognitions, descriptor
\* calculations, validity checks, the database steps and the cancellation of
\* a request with a worker call in flight leave it as it is.
C11_OnlyUpdateDescriptorsWritesCache ==
    [][known_descriptors' # known_descriptors =>
          \E t \in Tasks :
             /\ pc[t] \in {"load_update", "building"}
             /\ pc'[t] \in {"building", "serving", "done"}
             /\ loc[t].op \in {"init", "update_user_descriptor"}]_vars

\* check_access_by_face was cancelled with its recognition in flight: the
\* call is still to read a non-empty cache, while another request is inside
\* update_descriptors
C11_Witness ==
    \E t \in Procs, u \in Procs :
        /\ pc[t] = "orphaned"
        /\ loc[t].op = "check_access_by_face"
        /\ known_descriptors # <<>>
        /\ pc[u] = "building"

\* C12: normalize on an image without faces returns the "no face" outcome
\* and does not raise; calculate_descriptor then ends with
\* Err("Can't normalize image. Maybe there is no face.") after its one
\* worker call, and the embedder is never called.
C12_NoFaceEndsInErr ==
    \A t \in Procs :
        (/\ loc[t].op = "calculate_descriptor"
         /\ check_image_valid(loc[t].image)
         /\ loc[t].image.faces = <<>>
         /\ pc[t] \notin {"cd_normalize", "orphaned"}) =>
            /\ loc[t].normalized = NoImage
            /\ pc[t] \in {"cd_normalize_ret", "done"}
            /\ loc[t].worker_calls = 1
            /\ loc[t].descriptor = NoDescriptor
            /\ pc[t] = "done" =>
                  result[t] = Err("Can't normalize image. Maybe there is no face.")

\* calculate_descriptor has answered for a valid image without a face
C12_Witness ==
    \E t \in Procs :
        /\ loc[t].op = "calculate_descriptor"
        /\ check_image_valid(loc[t].image)
        /\ loc[t].image.faces = <<>>
        /\ pc[t] = "done"
        /\ result[t].kind = "Err"

\* the rectangle normalize cropped: the i-th detected face has embedding <<i, 0>>
Cropped == probed.normalized.emb[1]

\* C13: for an image with several detected faces normalize crops a
\* rectangle of maximal area (width times height), and among several of
\* maximal area the one that comes first in the sequence find_faces returned.
C13_LargestFaceFirstOnTies ==
    (probed.stage = "normalized" /\ Len(probe.faces) >= 1) =>
        /\ probed.normalized # NoImage
        /\ Cropped \in DOMAIN probe.faces
        /\ \A j \in DOMAIN probe.faces :
              probe.faces[j].w * probe.faces[j].h
                 <= probe.faces[Cropped].w * probe.faces[Cropped].h
        /\ \A j \in DOMAIN probe.faces :
              probe.faces[j].w * probe.faces[j].h
                 = probe.faces[Cropped].w * probe.faces[Cropped].h => Cropped <= j

\* three faces: a smaller one first, then two of the same maximal area and
\* of different shape; the second of the three was cropped
C13_Witness ==
    /\ probed.stage = "normalized"
    /\ Len(probe.faces) = 3
    /\ probe.faces[1].w * probe.faces[1].h < probe.faces[2].w * probe.faces[2].h
    /\ probe.faces[2].w * probe.faces[2].h = probe.faces[3].w * probe.faces[3].h
    /\ probe.faces[2].w # probe.faces[3].w
    /\ Cropped = 2

\* C14: check_image_valid is true exactly for sample type uint8, rank 3 and
\* 1 or 3 channels, and false - not an exception - for every other
\* combination; the image is left as it was.
C14_CheckImageValidExact ==
    probed.stage # "new" =>
        /\ probed.valid \in BOOLEAN
        /\ probed.valid <=>
              (probe.dtype = "uint8" /\ probe.rank = 3 /\ probe.channels \in {1, 3})
        /\ probe \in ProbeImages

\* a uint8 image of rank 3 with two channels has been turned down
C14_Witness ==
    /\ probed.stage = "checked"
    /\ probe.dtype = "uint8"
    /\ probe.rank = 3
    /\ probe.channels = 2
    /\ ~probed.valid

\* r is a room_login request whose Login-Token is in no row of "RoomLoginToken"
UnknownLogin(r) ==
    /\ r.endpoint = "room_login"
    /\ r.header # "none"
    /\ \A row \in RoomLoginTokens : row.token # r.header

\* C16: log_in_room with an unknown login token returns
\* Err("Unknown room login token.") and no step of that call deletes or
\* creates a temp token.
C16_UnknownLoginChangesNothing ==
    [][\A t \in Procs :
          (req'[t] # req[t] /\ (UnknownLogin(req[t]) \/ UnknownLogin(req'[t]))) =>
              /\ temp_tokens' = temp_tokens
              /\ req'[t].at \in {"lir_lookup", "done", "idle"}
              /\ req'[t].at = "done" =>
                    req'[t].result = Err("Unknown room login token.")]_vars

\* a log-in with an unknown login token has been answered while a temp
\* token is in storage
C16_Witness ==
    \E t \in Procs :
        /\ UnknownLogin(req[t])
        /\ req[t].at = "done"
        /\ temp_tokens # {}

\* C19: in every reachable state each room has at most one temp token in
\* storage.
C19_OneTempTokenPerRoom ==
    \A room \in {r.room_id : r \in RoomLoginTokens} :
        Cardinality({r \in temp_tokens : r.room_id = room}) <= 1

\* C15: authorize_room gives a room_id exactly when the temp token is known
\* and not yet expired: no row gives known=False and no room_id; a row whose
\* valid_before is earlier than the clock gives known=True, valid=False and
\* no room_id; any other row gives known=True, valid=True and its room_id.
C15_AuthorizeRoomOutcome ==
    \A t \in Procs :
        (req[t].endpoint = "record_visit" /\ req[t].auth # NoAuth) =>
            /\ req[t].fetched = NoToken =>
                  req[t].auth = Authorization(FALSE, "None", 0)
            /\ (req[t].fetched # NoToken
                  /\ req[t].fetched.valid_before < req[t].checked_at) =>
                  req[t].auth = Authorization(TRUE, "False", 0)
            /\ (req[t].fetched # NoToken
                  /\ req[t].fetched.valid_before >= req[t].checked_at) =>
                  req[t].auth = Authorization(TRUE, "True", req[t].fetched.room_id)
            /\ req[t].auth.id # 0 <=>
                  (req[t].fetched # NoToken
                     /\ req[t].fetched.valid_before >= req[t].checked_at)
            /\ req[t].fetched # NoToken => req[t].fetched.token = req[t].header

\* a token was checked at the very instant valid_before and was accepted
C15_Witness ==
    \E t \in Procs :
        /\ req[t].endpoint = "record_visit"
        /\ req[t].fetched # NoToken
        /\ req[t].checked_at = req[t].fetched.valid_before
        /\ req[t].auth = Authorization(TRUE, "True", req[t].fetched.room_id)

\* the handler of request r has been called
HandlerCalled(r) == r.at = "handler" \/ (r.at = "done" /\ r.response.status = 200)

\* C18: a handler wrapped by require runs only after every checker and
\* keyword requirement, in declaration order, gave a value that is not a
\* Response; the first Response ends the chain and is the answer, nothing
\* after it runs.  So record_visit runs only with a Room-Token that is
\* present, known and not expired when it was checked (400 without the
\* header, 401 for an unknown or expired token) and gets that token's
\* room_id; configure_room_access runs only with a known Admin-Token.
C18_RequireGuardsHandler ==
    \A t \in Procs :
        LET r == req[t]
            n == Len(r.outcomes)
        IN  r.endpoint \in Endpoints =>
              /\ n <= Len(Steps(r.endpoint))
              /\ \A i \in 1..(n - 1) : r.outcomes[i].kind = "value"
              /\ r.at \in {"prepare", "room_auth"} =>
                    \A i \in 1..n : r.outcomes[i].kind = "value"
              /\ HandlerCalled(r) =>
                    /\ n = Len(Steps(r.endpoint))
                    /\ \A i \in 1..n : r.outcomes[i].kind = "value"
                    /\ r.endpoint = "record_visit" =>
                          /\ r.header # "none"
                          /\ r.fetched # NoToken
                          /\ r.fetched.token = r.header
                          /\ r.fetched.valid_before >= r.checked_at
                          /\ r.outcomes[1].value = r.fetched.room_id
                          /\ r.at = "done" => r.room = r.fetched.room_id
                    /\ r.endpoint = "configure_room_access" =>
                          \E a \in AdminTokens : a.token = r.header
              /\ (r.at = "done" /\ ~HandlerCalled(r)) =>
                    /\ n >= 1
                    /\ r.outcomes[n].kind = "Response"
                    /\ r.response = r.outcomes[n]
                    /\ r.result = NoResult
              /\ (r.at = "done" /\ r.endpoint = "record_visit") =>
                    /\ r.header = "none" => (r.response.status = 400 /\ n = 1)
                    /\ (r.header # "none" /\ r.auth # NoAuth
                          /\ (r.fetched = NoToken
                                \/ r.fetched.valid_before < r.checked_at)) =>
                          (r.response.status = 401 /\ n = 1)

\* record_visit is about to run with the room of a token of room 2, while a
\* token of room 1 is in storage too
C18_Witness ==
    \E t \in Procs :
        /\ req[t].endpoint = "record_visit"
        /\ req[t].at = "handler"
        /\ req[t].outcomes[1].value = 2
        /\ \E other \in temp_tokens : other.room_id = 1

\* C20: once a log_in_room call for a room has completed, authorize_room
\* answers known=False for every temp token that an earlier completed
\* log_in_room call issued for that room.
C20_NewLoginRevokesOld ==
    \A i \in DOMAIN completed, j \in DOMAIN completed :
        (i < j /\ completed[i].room_id = completed[j].room_id) =>
            ~authorize_room(get_room_temp_token(completed[i].token), now).known

\* C17: record_visit writes a visit report only for a (room, user) pair that
\* has an access permission at the moment the report is written, also while
\* configure_access(room, user, False) runs concurrently.
C17_ReportOnlyWithPermission ==
    [][\A v \in visits' \ visits : <<v.room_id, v.user_id>> \in permissions]_vars

\* the position of a temp token string in the order of issue
TokenIndex(token) == CHOOSE i \in 1..Len(TokenStrings) : TokenStrings[i] = token

\* the clock reading of the log_in_room call that issued the row
IssuedAt(row) == issued_at[TokenIndex(row.token)]

\* every row carries valid_before = time of issue + ROOM_TOKEN_LIFETIME, and
\* every answer of authorize_room for a row still in storage is valid=True up
\* to and including that instant and known=True, valid=False after it
LifetimeKept ==
    /\ \A row \in temp_tokens :
          row.valid_before = IssuedAt(row) + ROOM_TOKEN_LIFETIME
    /\ \A t \in Procs :
          req[t].issued # NoToken =>
              req[t].issued.valid_before = IssuedAt(req[t].issued) + ROOM_TOKEN_LIFETIME
    /\ \A t \in Procs :
          (req[t].endpoint = "record_visit" /\ req[t].auth # NoAuth
             /\ req[t].fetched # NoToken) =>
              IF req[t].checked_at <= IssuedAt(req[t].fetched) + ROOM_TOKEN_LIFETIME
              THEN req[t].auth = Authorization(TRUE, "True", req[t].fetched.room_id)
              ELSE req[t].auth = Authorization(TRUE, "False", 0)

\* C21: a temp token issued at time t has valid_before = t +
\* ROOM_TOKEN_LIFETIME; while its row is in storage authorize_room accepts it
\* at every time up to and including t + ROOM_TOKEN_LIFETIME and answers
\* known=True, valid=False at every later time; a token once found expired
\* is never accepted afterwards.
C21_TokenLivesOneLifetime ==
    [][/\ LifetimeKept'
       /\ \A t \in Procs :
             (req[t].at = "room_auth" /\ req'[t].auth.valid = "True") =>
                 req[t].header \notin rejected]_vars

\* a token that was already found expired is presented again and its row is
\* still in storage
C21_Witness ==
    \E t \in Procs :
        /\ req[t].at = "room_auth"
        /\ req[t].header \in rejected
        /\ req[t].fetched # NoToken

\* C22: each task is in the returned task list of at most one
\* get_unsent_tasks call, unless a report set its status back to UNSENT.
C22_DeliveredAtMostOnce ==
    \A id \in TaskIds : id \notin resent => delivered[id] <= 1

\* task t takes the named step of get_unsent_tasks
PollStep(t, from, to) == tcall[t].at = from /\ tcall'[t].at = to

\* C23: get_unsent_tasks(room) returns exactly the tasks of the room that
\* have status UNSENT and sets exactly those to SENT; a task of another room,
\* or of the room with another status, is neither returned nor changed.
C23_PollTakesExactlyUnsent ==
    [][\A t \in Procs :
          /\ PollStep(t, "idle", "gut_fetched") =>
                tcall'[t].tasks =
                    get_room_tasks_with_status(tcall'[t].room_id, "UNSENT")
          /\ PollStep(t, "gut_fetched", "gut_updated") =>
                /\ \A id \in tcall[t].tasks : room_tasks'[id].status = "SENT"
                /\ \A id \in TaskIds :
                      room_tasks'[id] # room_tasks[id] =>
                          /\ room_tasks[id].room_id = tcall[t].room_id
                          /\ room_tasks[id].status = "UNSENT"]_vars

HasRun(t) ==
    pc[t] # "idle" \/ loc[t] # NoLocals \/ result[t] # NoResult \/ allowed[t] # {}

\* the pairs task t's recognition read from the cache
ReadPairs(t) == {loc[t].snap[i] : i \in DOMAIN loc[t].snap}

\* C25: the startup callbacks run in registration order: the pool is
\* connected before AccessControlService.init loads the descriptors, the
\* cache holds what storage holds when startup ends, and no request handler
\* runs before that, so every recognition reads the loaded cache.
C25_StartupBeforeRequests ==
    [][/\ pc'[Startup] # "created" => pool'
       /\ \A t \in Procs : HasRun(t)' => Serving'
       /\ \A t \in Procs : allowed'[t] # {} => ReadPairs(t)' = StoredPairs'
       /\ (~Serving /\ Serving') =>
             /\ CachedPairs' = StoredPairs'
             /\ loc'[Startup].op = "init"
             /\ \A t \in Procs : ~HasRun(t)]_vars

\* a recognition has read the non-empty cache that startup loaded
C25_Witness ==
    \E t \in Procs :
        /\ allowed[t] # {}
        /\ Len(loc[t].snap) = 2
        /\ known_descriptors = committed

====
